---- MODULE Spec2Model ----
(***************************************************************************)
(* A model of the campus-administration agent: the student roster tools    *)
(* (backend/tools.py), the agent loop (backend/agent.py) and the chat      *)
(* endpoints with the streaming gateway (backend/main.py).                 *)
(*                                                                         *)
(* Strings the program builds (f-strings, str(), json.dumps) are modelled  *)
(* as sequences of string tokens, so that formatting and parsing are real  *)
(* conversions and prefixes can be inspected.                              *)
(***************************************************************************)
EXTENDS Integers, Sequences, FiniteSets, TLC

VARIABLES
    connected,   \* tools.py:9   students_collection is not None
    students,    \* the documents of the students collection, in natural order
    lastOp,      \* the last roster tool call: its name, arguments and return value
    nOps,        \* number of roster tool calls made directly (exploration counter)
    mode,        \* the endpoint serving the request: "idle", "chat" or "stream"
    node,        \* position of the agent run in the graph
    messages,    \* AgentState.messages, the transcript of the run
    modelCalls,  \* number of model_with_tools.invoke calls of the run
    toolCycles,  \* number of call_tool executions of the run
    frames,      \* frames event_generator has yielded
    channel,     \* the streaming response: "none", "open", "closed" or "aborted"
    response,    \* the JSON response of POST /chat
    events,      \* the events astream_events has delivered to event_generator
    calls,       \* the add_student calls that concurrent requests are executing
    reachable,   \* whether the store answers the operations sent to it
    raised,      \* whether the last handler call ended with an exception
    http,        \* the last request to a /students endpoint and its response
    runs,        \* the agent runs of several chat requests, one state per request
    thread       \* the transcript kept for thread id "1" between runs

storeVars == <<connected, students, lastOp, nOps>>
agentVars == <<mode, node, messages, modelCalls, toolCycles, frames, channel, response, events>>
extVars == <<calls, reachable, raised, http, runs, thread>>
vars == <<connected, students, lastOp, nOps,
          mode, node, messages, modelCalls, toolCycles, frames, channel, response, events,
          calls, reachable, raised, http, runs, thread>>

----------------------------------------------------------------------------
(* Bounds of the exploration *)
MaxOps == 3          \* direct roster tool calls per behaviour
MaxTurns == 3        \* model calls explored per agent run (the code has no limit)
RunIds == {1, 2}     \* two chat requests whose runs may overlap
MaxRunCalls == 3     \* model calls explored over all the overlapping runs

Procs == {1, 2}      \* two requests calling add_student at the same time

(* Inputs the tools are called with *)
Ids == {"23-1001", "23-1002", "23-9999"}
Names == {"Omar"}
Departments == {"Data Science", "Physics"}
Emails == {"omar@x.edu"}
UpdateFields == {"id", "department", "year"}
NewValues == {"23-1002", "Physics"}

----------------------------------------------------------------------------
(* Documents.  A document maps field names to string values; Absent marks  *)
(* a field the document does not have.  The store's own _id is distinct    *)
(* per document and is represented by the document's position.             *)
Absent == "<absent>"
FieldOrder == <<"id", "name", "department", "email", "year">>
Fields == {FieldOrder[i] : i \in 1..Len(FieldOrder)}

Doc(id, name, department, email) ==
    [f \in Fields |-> CASE f = "id" -> id
                        [] f = "name" -> name
                        [] f = "department" -> department
                        [] f = "email" -> email
                        [] OTHER -> Absent]

mock_students ==
    << Doc("23-1001", "Ayesha Khan", "Computer Science", "ayesha@saylani.edu"),
       Doc("23-1002", "Usman Ali", "Software Engineering", "usman@saylani.edu"),
       Doc("23-1003", "Fatima Rehman", "Data Science", "fatima@saylani.edu"),
       Doc("23-1004", "Bilal Ahmed", "Computer Science", "bilal@saylani.edu"),
       Doc("23-1005", "Sana Ejaz", "Software Engineering", "sana@saylani.edu") >>

(* populate_db_with_mock_data: delete_many({}) then insert_many(mock) *)
populate_db_with_mock_data(conn) == IF conn THEN mock_students ELSE <<>>

----------------------------------------------------------------------------
(* Store primitives *)

\* positions of the documents matching {"id": id}
Matches(coll, id) == {i \in 1..Len(coll) : coll[i]["id"] = id}

Min(S) == CHOOSE x \in S : \A y \in S : x <= y

\* find_one({"id": id}): position of the first match, 0 when there is none
find_one(coll, id) == IF Matches(coll, id) = {} THEN 0 ELSE Min(Matches(coll, id))

insert_one(coll, doc) == Append(coll, doc)

RemoveAt(coll, i) == [j \in 1..(Len(coll) - 1) |-> IF j < i THEN coll[j] ELSE coll[j + 1]]

\* delete_many in place of delete_one: removes every match
delete_many(coll, id) ==
    [coll |-> SelectSeq(coll, LAMBDA d : d["id"] # id),
     deleted_count |-> Cardinality(Matches(coll, id))]

\* delete_one with an empty filter: removes the first document
delete_one_unfiltered(coll, id) ==
    IF coll = <<>> THEN [coll |-> coll, deleted_count |-> 0]
                   ELSE [coll |-> RemoveAt(coll, 1), deleted_count |-> 1]

\* delete_one({"id": id}): removes the first match; deleted_count is 0 or 1
delete_one(coll, id) ==
    LET i == find_one(coll, id) IN
    IF i = 0 THEN [coll |-> coll, deleted_count |-> 0]
             ELSE [coll |-> RemoveAt(coll, i), deleted_count |-> 1]

\* update_one with upsert=True: a missing id is inserted with the field set
update_one_upsert(coll, id, field, new_value) ==
    LET i == find_one(coll, id) IN
    IF i = 0 THEN [coll |-> Append(coll, [[f \in Fields |-> Absent] EXCEPT
                                             !["id"] = id, ![field] = new_value]),
                   matched_count |-> 0]
             ELSE [coll |-> [coll EXCEPT ![i] = [@ EXCEPT ![field] = new_value]],
                   matched_count |-> 1]

\* update_one({"id": id}, {"$set": {field: new_value}}): sets the field of the first match
update_one(coll, id, field, new_value) ==
    LET i == find_one(coll, id) IN
    IF i = 0 THEN [coll |-> coll, matched_count |-> 0]
             ELSE [coll |-> [coll EXCEPT ![i] = [@ EXCEPT ![field] = new_value]],
                   matched_count |-> 1]

count_documents(coll) == Len(coll)

----------------------------------------------------------------------------
(* Formatting *)

Digit(d) == CASE d = 0 -> "0" [] d = 1 -> "1" [] d = 2 -> "2" [] d = 3 -> "3"
              [] d = 4 -> "4" [] d = 5 -> "5" [] d = 6 -> "6" [] d = 7 -> "7"
              [] d = 8 -> "8" [] d = 9 -> "9"

RECURSIVE str(_)
\* str(n) for a natural number: its decimal digits
str(n) == IF n < 10 THEN <<Digit(n)>> ELSE str(n \div 10) \o <<Digit(n % 10)>>

RECURSIVE DumpFields(_, _)
\* the "key": "value" members of a document, fields in order, absent fields left out
DumpFields(doc, k) ==
    IF k > Len(FieldOrder) THEN <<>>
    ELSE LET f == FieldOrder[k]
             rest == DumpFields(doc, k + 1)
         IN IF doc[f] = Absent THEN rest
            ELSE IF rest = <<>> THEN <<f, ":", doc[f]>>
                 ELSE <<f, ":", doc[f], ",">> \o rest

\* json.dumps of a document found with the projection {"_id": 0}
json_dumps_doc(doc) == <<"{">> \o DumpFields(doc, 1) \o <<"}">>

DB_FAILED == <<"Error: Database connection failed.">>
NotFound(id) == <<"Error: No student found with ID ", id, ".">>
AlreadyExists(id) == <<"Error: Student with ID ", id, " already exists.">>
Added(name, id) == <<"Success: Student ", name, " with ID ", id, " has been added.">>
Updated(id) == <<"Success: Student with ID ", id, " updated successfully.">>
Deleted(id) == <<"Success: Student with ID ", id, " has been deleted.">>

----------------------------------------------------------------------------
(* The roster tools.  Each takes the collection handle (conn: whether      *)
(* students_collection is not None; coll: its documents) and its arguments *)
(* and gives the returned string and the collection afterwards.            *)

RECURSIVE DumpList(_, _)
DumpList(coll, k) ==
    IF k > Len(coll) THEN <<>>
    ELSE IF k = Len(coll) THEN json_dumps_doc(coll[k])
         ELSE json_dumps_doc(coll[k]) \o <<",">> \o DumpList(coll, k + 1)

list_students(conn, coll) ==
    IF ~conn THEN [ret |-> DB_FAILED, coll |-> coll]
    ELSE [ret |-> <<"[">> \o DumpList(coll, 1) \o <<"]">>, coll |-> coll]

get_student(conn, coll, id) ==
    IF ~conn THEN [ret |-> DB_FAILED, coll |-> coll]
    ELSE LET i == find_one(coll, id) IN
         IF i # 0 THEN [ret |-> json_dumps_doc(coll[i]), coll |-> coll]
         ELSE [ret |-> NotFound(id), coll |-> coll]

\* add_student storing its arguments one position off
add_student_shifted(conn, coll, id, name, department, email) ==
    IF ~conn THEN [ret |-> DB_FAILED, coll |-> coll]
    ELSE IF find_one(coll, id) # 0 THEN [ret |-> AlreadyExists(id), coll |-> coll]
    ELSE [ret |-> Added(name, id),
          coll |-> insert_one(coll, Doc(id, department, name, email))]

\* add_student without the look-up of the id
add_student_unchecked(conn, coll, id, name, department, email) ==
    IF ~conn THEN [ret |-> DB_FAILED, coll |-> coll]
    ELSE [ret |-> Added(name, id),
          coll |-> insert_one(coll, Doc(id, name, department, email))]

add_student(conn, coll, id, name, department, email) ==
    IF ~conn THEN [ret |-> DB_FAILED, coll |-> coll]
    ELSE IF find_one(coll, id) # 0 THEN [ret |-> AlreadyExists(id), coll |-> coll]
    ELSE [ret |-> Added(name, id),
          coll |-> insert_one(coll, Doc(id, name, department, email))]

update_student(conn, coll, id, field, new_value) ==
    IF ~conn THEN [ret |-> DB_FAILED, coll |-> coll]
    ELSE LET result == update_one(coll, id, field, new_value) IN
         IF result.matched_count = 0 THEN [ret |-> NotFound(id), coll |-> result.coll]
         ELSE [ret |-> Updated(id), coll |-> result.coll]

delete_student(conn, coll, id) ==
    IF ~conn THEN [ret |-> DB_FAILED, coll |-> coll]
    ELSE LET result == delete_one(coll, id) IN
         IF result.deleted_count = 0 THEN [ret |-> NotFound(id), coll |-> result.coll]
         ELSE [ret |-> Deleted(id), coll |-> result.coll]

\* get_total_students counting the distinct ids
get_total_students_distinct(conn, coll) ==
    IF ~conn THEN [ret |-> DB_FAILED, coll |-> coll]
    ELSE [ret |-> str(Cardinality({coll[i]["id"] : i \in 1..Len(coll)})), coll |-> coll]

get_total_students(conn, coll) ==
    IF ~conn THEN [ret |-> DB_FAILED, coll |-> coll]
    ELSE [ret |-> str(count_documents(coll)), coll |-> coll]

\* the key json.dumps writes for a group: a missing department groups under null
GroupKey(doc) == IF doc["department"] = Absent THEN "null" ELSE doc["department"]

RECURSIVE aggregate_group(_, _, _)
\* [{"$group": {"_id": "$department", "count": {"$sum": 1}}}]: one group per
\* distinct department, listed by first occurrence, with its number of documents
aggregate_group(coll, k, seen) ==
    IF k > Len(coll) THEN <<>>
    ELSE IF coll[k]["department"] \in seen THEN aggregate_group(coll, k + 1, seen)
    ELSE << [_id |-> GroupKey(coll[k]),
             count |-> Cardinality({i \in 1..Len(coll) :
                                      coll[i]["department"] = coll[k]["department"]})] >>
         \o aggregate_group(coll, k + 1, seen \cup {coll[k]["department"]})

RECURSIVE DumpCounts(_, _)
\* json.dumps of {item['_id']: item['count'] for item in results}
DumpCounts(results, k) ==
    IF k > Len(results) THEN <<>>
    ELSE LET member == <<results[k]._id, ":">> \o str(results[k].count) IN
         IF k = Len(results) THEN member
         ELSE member \o <<",">> \o DumpCounts(results, k + 1)

get_students_by_department(conn, coll) ==
    IF ~conn THEN [ret |-> DB_FAILED, coll |-> coll]
    ELSE LET results == aggregate_group(coll, 1, {}) IN
         [ret |-> <<"{">> \o DumpCounts(results, 1) \o <<"}">>, coll |-> coll]

\* result.startswith("Error")
startswith_Error(s) ==
    /\ Len(s) > 0
    /\ s[1] \in {"Error: Database connection failed.", "Error: No student found with ID ",
                 "Error: Student with ID "}

----------------------------------------------------------------------------
(* Direct calls of the roster tools *)

NoArg == ""
Op(op, id, name, department, email, field, new_value, ret) ==
    [op |-> op, id |-> id, name |-> name, department |-> department, email |-> email,
     field |-> field, new_value |-> new_value, ret |-> ret]

InitStore ==
    /\ connected \in BOOLEAN
    /\ students = populate_db_with_mock_data(connected)
    /\ lastOp = Op("startup", NoArg, NoArg, NoArg, NoArg, NoArg, NoArg, <<>>)
    /\ nOps = 0

AddStudent ==
    /\ nOps < MaxOps
    /\ \E id \in Ids, name \in Names, department \in Departments, email \in Emails :
         LET r == add_student(connected, students, id, name, department, email) IN
         /\ students' = r.coll
         /\ lastOp' = Op("add_student", id, name, department, email, NoArg, NoArg, r.ret)
    /\ nOps' = nOps + 1
    /\ UNCHANGED <<connected, agentVars, extVars>>

UpdateStudent ==
    /\ nOps < MaxOps
    /\ \E id \in Ids, field \in UpdateFields, new_value \in NewValues :
         LET r == update_student(connected, students, id, field, new_value) IN
         /\ students' = r.coll
         /\ lastOp' = Op("update_student", id, NoArg, NoArg, NoArg, field, new_value, r.ret)
    /\ nOps' = nOps + 1
    /\ UNCHANGED <<connected, agentVars, extVars>>

DeleteStudent ==
    /\ nOps < MaxOps
    /\ \E id \in Ids :
         LET r == delete_student(connected, students, id) IN
         /\ students' = r.coll
         /\ lastOp' = Op("delete_student", id, NoArg, NoArg, NoArg, NoArg, NoArg, r.ret)
    /\ nOps' = nOps + 1
    /\ UNCHANGED <<connected, agentVars, extVars>>

NextStore == AddStudent \/ UpdateStudent \/ DeleteStudent

----------------------------------------------------------------------------
(* Campus FAQ tools and the tool executor *)

get_cafeteria_timings == <<"The cafeteria is open from 8:00 AM to 10:00 PM.">>
get_library_hours ==
    <<"The library is open from 9:00 AM to 9:00 PM on weekdays and 10:00 AM to 6:00 PM on weekends.">>
get_event_schedule ==
    <<"Upcoming events: AI Hackathon on 25th Oct, Annual Sports Day on 15th Nov.">>

Args(id, name, department, email, field, new_value) ==
    [id |-> id, name |-> name, department |-> department, email |-> email,
     field |-> field, new_value |-> new_value]
NoArgs == Args(NoArg, NoArg, NoArg, NoArg, NoArg, NoArg)

\* the registered tools (agent.py tools list) that are modelled
tools == {"list_students", "get_student", "add_student", "update_student", "delete_student",
          "get_total_students", "get_students_by_department",
          "get_cafeteria_timings", "get_library_hours", "get_event_schedule"}

\* tool_executor.invoke(action) for a registered tool: runs the named tool on its arguments
tool_executor_invoke(action, conn, coll) ==
    LET a == action.args IN
    CASE action.name = "list_students" -> list_students(conn, coll)
      [] action.name = "get_student" -> get_student(conn, coll, a.id)
      [] action.name = "add_student" ->
             add_student(conn, coll, a.id, a.name, a.department, a.email)
      [] action.name = "update_student" ->
             update_student(conn, coll, a.id, a.field, a.new_value)
      [] action.name = "delete_student" -> delete_student(conn, coll, a.id)
      [] action.name = "get_total_students" -> get_total_students(conn, coll)
      [] action.name = "get_students_by_department" -> get_students_by_department(conn, coll)
      [] action.name = "get_cafeteria_timings" -> [ret |-> get_cafeteria_timings, coll |-> coll]
      [] action.name = "get_library_hours" -> [ret |-> get_library_hours, coll |-> coll]
      [] action.name = "get_event_schedule" -> [ret |-> get_event_schedule, coll |-> coll]

----------------------------------------------------------------------------
(* Messages and model replies *)

HumanMessage(text) ==
    [role |-> "human", content |-> <<text>>, tool_calls |-> <<>>, tool_call_id |-> ""]
AIMessage(content, tool_calls) ==
    [role |-> "ai", content |-> content, tool_calls |-> tool_calls, tool_call_id |-> ""]
ToolMessage(content, tool_call_id) ==
    [role |-> "tool", content |-> content, tool_calls |-> <<>>, tool_call_id |-> tool_call_id]

(* What the model may reply.  The model is an external collaborator: it     *)
(* answers with text (possibly empty) or requests one or two tools, with    *)
(* call ids of its own choosing.                                            *)
UserMessages == {"what are library hours?", ""}
CallIds == {"call_1", "call_2"}
RequestedCalls ==
    { [name |-> "get_library_hours", args |-> NoArgs],
      [name |-> "add_student",
       args |-> Args("23-9999", "Omar", "Data Science", "omar@x.edu", NoArg, NoArg)] }
ToolRequests == { [name |-> c.name, args |-> c.args, id |-> i] : c \in RequestedCalls, i \in CallIds }
Answers == { <<>>, <<"The library ", "is open.">> }
\* a request that names a tool the registry does not have
UnregisteredRequests == { [name |-> "get_weather", args |-> NoArgs, id |-> "call_1"] }
Replies ==
    { AIMessage(text, <<>>) : text \in Answers }
    \cup { AIMessage(<<>>, <<t>>) : t \in ToolRequests \cup UnregisteredRequests }
    \cup { AIMessage(<<>>, <<t, u>>) :
               t \in {r \in ToolRequests : r.id = "call_1"}, u \in ToolRequests }

Last(seq) == seq[Len(seq)]

\* a reducer that keeps the update only
add_messages_replace(x, y) == y

\* a call_tool that takes the last request of the turn
last_tool_call(last_message) == last_message.tool_calls[Len(last_message.tool_calls)]

\* action = last_message.tool_calls[0]
first_tool_call(last_message) == last_message.tool_calls[1]

\* the output of the executor when it answers a request for a name it does not have
NotAValidTool(name) == <<"Error: ", name, " is not a valid tool.">>

\* AgentState.messages reducer: lambda x, y: x + y
add_messages(x, y) == x \o y

\* should_continue looking at the content instead of the tool calls
should_continue_on_content(state_messages) ==
    IF Last(state_messages).content = <<>> THEN "continue" ELSE "end"

\* should_continue: "continue" when the last message carries tool calls
should_continue(state_messages) ==
    IF Last(state_messages).tool_calls # <<>> THEN "continue" ELSE "end"

\* add_conditional_edges("agent", should_continue, {"continue": "action", "end": END})
conditional_edge(state_messages) ==
    IF should_continue(state_messages) = "continue" THEN "action" ELSE "END"

----------------------------------------------------------------------------
(* The streaming gateway *)

Event(kind, content) == [event |-> kind, content |-> content]

\* the chunks of a streamed reply: one per text fragment, and a chunk with
\* empty content carrying the tool calls
RECURSIVE TokenEvents(_, _)
TokenEvents(content, k) ==
    IF k > Len(content) THEN <<>>
    ELSE <<Event("on_chat_model_stream", <<content[k]>>)>> \o TokenEvents(content, k + 1)

ModelEvents(reply) ==
    <<Event("on_chat_model_start", <<>>)>>
    \o (IF reply.tool_calls # <<>> THEN <<Event("on_chat_model_stream", <<"">>)>> ELSE <<>>)
    \o TokenEvents(reply.content, 1)
    \o <<Event("on_chat_model_end", <<>>)>>

ToolEvents(output) == <<Event("on_tool_start", <<>>), Event("on_tool_end", output)>>

\* the kind of the event that closes a run is the event source's
EndKinds == {"on_chain_end", "on_end"}

DONE == <<"data: [DONE]\n\n">>
TokenFrame(content) == <<"data: ", "{", "token", ":">> \o content \o <<"}", "\n\n">>
ToolOutputFrame(output) == <<"data: ", "{", "tool_output", ":">> \o output \o <<"}", "\n\n">>

\* an event_generator without the test of token.content
event_generator_every_chunk(event) ==
    IF event.event = "on_chat_model_stream" THEN <<TokenFrame(event.content)>>
    ELSE IF event.event = "on_tool_end" THEN <<ToolOutputFrame(event.content)>>
    ELSE IF event.event = "on_end" THEN <<DONE>>
    ELSE <<>>

\* the body of event_generator's loop: the frames yielded for one event
event_generator(event) ==
    IF event.event = "on_chat_model_stream"
    THEN (IF event.content # <<"">> THEN <<TokenFrame(event.content)>> ELSE <<>>)
    ELSE IF event.event = "on_tool_end" THEN <<ToolOutputFrame(event.content)>>
    ELSE IF event.event = "on_end" THEN <<DONE>>
    ELSE <<>>

RECURSIVE Relay(_, _)
Relay(evs, k) ==
    IF k > Len(evs) THEN <<>> ELSE event_generator(evs[k]) \o Relay(evs, k + 1)

\* frames after the events of one step, when the run is served by /chat/stream
Yield(evs) == IF mode = "stream" THEN frames \o Relay(evs, 1) ELSE frames

\* the events delivered so far, after the events of one step
Arrived(evs) == IF mode = "stream" THEN events \o evs ELSE events

----------------------------------------------------------------------------
(* The chat endpoints and the agent run *)

NoResponse == [status_code |-> 0, content |-> <<>>]

\* a chat_endpoint that answers with the first message of the result
final_message_first(result_messages) == result_messages[1].content

\* final_message = result['messages'][-1].content
final_message(result_messages) == Last(result_messages).content
Response(status_code, content) == [status_code |-> status_code, content |-> content]

InitAgent ==
    /\ mode = "idle"
    /\ node = "none"
    /\ messages = <<>>
    /\ modelCalls = 0
    /\ toolCycles = 0
    /\ frames = <<>>
    /\ channel = "none"
    /\ response = NoResponse
    /\ events = <<>>

NoCall == [pc |-> "idle", id |-> NoArg, name |-> NoArg, department |-> NoArg,
           email |-> NoArg, fresh |-> FALSE, found |-> FALSE, ret |-> <<>>]
Body(id, name, department, year, email) ==
    [id |-> id, name |-> name, department |-> department, year |-> year, email |-> email]
NoBody == Body(NoArg, NoArg, NoArg, NoArg, NoArg)
NoHttp == [method |-> "none", student_id |-> NoArg, body |-> NoBody, existed |-> FALSE,
           status_code |-> 0, content |-> <<>>]
NoRun == [node |-> "none", endpoint |-> "none", user_message |-> NoArg, messages |-> <<>>,
          calls |-> 0, seen |-> 0]

\* the parts of the state used by the other specifications
InitExt ==
    /\ calls = [p \in Procs |-> NoCall]
    /\ reachable = connected
    /\ raised = FALSE
    /\ http = NoHttp
    /\ runs = [r \in RunIds |-> NoRun]
    /\ thread = <<>>

Init == InitStore /\ InitAgent /\ InitExt

\* POST /chat: 400 when the message is missing or empty, else the run starts
ChatRequest ==
    /\ mode = "idle"
    /\ mode' = "chat"
    /\ \E user_message \in UserMessages :
         IF user_message = ""
         THEN /\ response' = Response(400, <<"error", "Message is required.">>)
              /\ UNCHANGED <<node, messages>>
         ELSE /\ node' = "agent"
              /\ messages' = add_messages(<<>>, <<HumanMessage(user_message)>>)
              /\ UNCHANGED response
    /\ UNCHANGED <<storeVars, extVars, modelCalls, toolCycles, frames, channel, events>>

\* POST /chat/stream: the response channel opens and the run starts
StreamRequest ==
    /\ mode = "idle"
    /\ mode' = "stream"
    /\ channel' = "open"
    /\ node' = "agent"
    /\ \E user_message \in UserMessages :
         messages' = add_messages(<<>>, <<HumanMessage(user_message)>>)
    /\ frames' = frames \o Relay(<<Event("on_chain_start", <<>>)>>, 1)
    /\ events' = events \o <<Event("on_chain_start", <<>>)>>
    /\ UNCHANGED <<storeVars, extVars, modelCalls, toolCycles, response>>

\* node "agent": call_model, then the conditional edge
CallModel ==
    /\ node = "agent"
    /\ modelCalls < MaxTurns
    /\ \E reply \in Replies :
         /\ messages' = add_messages(messages, <<reply>>)
         /\ frames' = Yield(ModelEvents(reply))
         /\ events' = Arrived(ModelEvents(reply))
    /\ node' = conditional_edge(messages')
    /\ modelCalls' = modelCalls + 1
    /\ UNCHANGED <<storeVars, extVars, mode, toolCycles, channel, response>>

\* the run raises: /chat answers 500, /chat/stream's generator ends with the exception
Fail ==
    /\ node' = "failed"
    /\ IF mode = "chat"
       THEN /\ response' = Response(500, <<"error", "exception">>)
            /\ UNCHANGED channel
       ELSE /\ channel' = "aborted"
            /\ UNCHANGED response
    /\ UNCHANGED <<storeVars, extVars, mode, messages, toolCycles, frames, events>>

\* model_with_tools.invoke raises
CallModelRaises ==
    /\ node = "agent"
    /\ modelCalls < MaxTurns
    /\ modelCalls' = modelCalls + 1
    /\ Fail

\* node "action": call_tool runs the first requested tool and appends its result
CallTool ==
    /\ node = "action"
    /\ Last(messages).tool_calls # <<>>
    /\ first_tool_call(Last(messages)).name \in tools
    /\ LET last_message == Last(messages)
           action == first_tool_call(last_message)
           tool_output == tool_executor_invoke(action, connected, students)
       IN /\ messages' = add_messages(messages, <<ToolMessage(tool_output.ret, action.id)>>)
          /\ students' = tool_output.coll
          /\ lastOp' = Op(action.name, action.args.id, action.args.name,
                          action.args.department, action.args.email,
                          action.args.field, action.args.new_value, tool_output.ret)
          /\ frames' = Yield(ToolEvents(tool_output.ret))
          /\ events' = Arrived(ToolEvents(tool_output.ret))
    /\ node' = "agent"
    /\ toolCycles' = toolCycles + 1
    /\ UNCHANGED <<connected, nOps, extVars, mode, modelCalls, channel, response>>

\* node "action" on a request for an unregistered tool, when the executor answers
\* it with an error output: call_tool appends that output as the tool result
CallToolUnregistered ==
    /\ node = "action"
    /\ Last(messages).tool_calls # <<>>
    /\ first_tool_call(Last(messages)).name \notin tools
    /\ LET action == first_tool_call(Last(messages)) IN
       messages' = add_messages(messages, <<ToolMessage(NotAValidTool(action.name), action.id)>>)
    /\ node' = "agent"
    /\ toolCycles' = toolCycles + 1
    /\ UNCHANGED <<storeVars, extVars, mode, modelCalls, frames, channel, response, events>>

\* call_tool raises (tool_calls[0] of an empty list, or the executor raises)
CallToolRaises ==
    /\ node = "action"
    /\ UNCHANGED modelCalls
    /\ Fail

\* agent_app.invoke returns: /chat answers with the last message's content
ChatReturn ==
    /\ mode = "chat"
    /\ node = "END"
    /\ response = NoResponse
    /\ response' = Response(200, <<"response">> \o final_message(messages))
    /\ UNCHANGED <<storeVars, extVars, mode, node, messages, modelCalls, toolCycles, frames, channel, events>>

\* astream_events delivers the run's closing event and is exhausted
StreamEnd ==
    /\ mode = "stream"
    /\ node = "END"
    /\ channel = "open"
    /\ \E kind \in EndKinds :
         /\ frames' = Yield(<<Event(kind, <<>>)>>)
         /\ events' = Arrived(<<Event(kind, <<>>)>>)
    /\ channel' = "closed"
    /\ UNCHANGED <<storeVars, extVars, mode, node, messages, modelCalls, toolCycles, response>>

NextAgent ==
    \/ ChatRequest
    \/ StreamRequest
    \/ CallModel
    \/ CallModelRaises
    \/ CallTool
    \/ CallToolUnregistered
    \/ CallToolRaises
    \/ ChatReturn
    \/ StreamEnd

SpecStore == Init /\ [][NextStore]_vars
SpecAgent == Init /\ [][NextAgent]_vars

----------------------------------------------------------------------------
(* Properties of the agent loop and the streaming gateway (SpecAgent) *)

IsAI(m) == m.role = "ai"
Requests(m) == IsAI(m) /\ m.tool_calls # <<>>
Answer(m) == IsAI(m) /\ m.tool_calls = <<>>
NumRequests == Cardinality({i \in 1..Len(messages) : Requests(messages[i])})

\* C1: the loop is at "action" (EXECUTE_TOOL) only right after an assistant turn
\* that carries a ToolRequest; it is at END right after the first assistant turn
\* with no ToolRequest, and never anywhere else after such a turn; a run that
\* ended after k requesting turns made exactly k + 1 model calls.
C1_LoopRouting ==
    /\ node = "action" => Requests(Last(messages))
    /\ (messages # <<>> /\ Answer(Last(messages))) => node = "END"
    /\ node = "END" =>
         /\ Answer(Last(messages))
         /\ \A i \in 1..(Len(messages) - 1) : IsAI(messages[i]) => Requests(messages[i])
         /\ modelCalls = NumRequests + 1
         /\ toolCycles = NumRequests

C1_Witness == node = "END" /\ NumRequests = 2 /\ modelCalls = 3

NumDone == Cardinality({i \in 1..Len(frames) : frames[i] = DONE})
StreamOver == channel \in {"closed", "aborted"}

\* C2: when a stream served by /chat/stream is over, its frames contain exactly
\* one terminal marker frame and that frame is the last one.
C2_OneTerminalLast ==
    StreamOver => /\ NumDone = 1
                  /\ frames # <<>>
                  /\ Last(frames) = DONE

\* C3: a stream whose run raised still carries the terminal marker frame.
C3_TerminalOnFailure ==
    (mode = "stream" /\ node = "failed") => NumDone >= 1

\* C4: the loop caps the EXECUTE_TOOL cycles of a run: a run that has made as
\* many tool cycles as the exploration allows (MaxTurns) is over, at END or failed,
\* and does not go back to await the model.
C4_StepBudget ==
    toolCycles >= MaxTurns => node \in {"END", "failed"}

ToolResultsAnswerPreceding ==
    \A i \in 1..Len(messages) :
        messages[i].role = "tool" =>
            /\ i > 1
            /\ IsAI(messages[i - 1])
            /\ \E j \in 1..Len(messages[i - 1].tool_calls) :
                   messages[i - 1].tool_calls[j].id = messages[i].tool_call_id

AppendOnly ==
    /\ Len(messages') >= Len(messages)
    /\ SubSeq(messages', 1, Len(messages)) = messages

\* C5: the transcript only grows, each step leaving the earlier messages as they
\* were, and every tool-result message carries the id of a ToolRequest of the
\* assistant message right before it.
C5_Transcript == [][AppendOnly /\ ToolResultsAnswerPreceding']_vars

C5_Witness ==
    /\ Len(messages) >= 5
    /\ messages[3].role = "tool"
    /\ messages[5].role = "tool"
    /\ Len(messages[2].tool_calls) = 2
    /\ messages[3].tool_call_id = messages[2].tool_calls[1].id

----------------------------------------------------------------------------
(* Properties of the roster tools (SpecStore) *)

NoDoc == [f \in Fields |-> Absent]

RECURSIVE LoadMembers(_, _, _)
\* json.loads of an object of string members: the document it denotes
LoadMembers(toks, i, doc) ==
    IF i > Len(toks) \/ toks[i] = "}" THEN doc
    ELSE IF toks[i] = "," THEN LoadMembers(toks, i + 1, doc)
    ELSE LoadMembers(toks, i + 3, [doc EXCEPT ![toks[i]] = toks[i + 2]])

json_loads_doc(toks) == LoadMembers(toks, 2, NoDoc)

DigitValue(c) == CHOOSE d \in 0..9 : Digit(d) = c
IsDigit(c) == \E d \in 0..9 : Digit(d) = c

RECURSIVE int(_, _, _)
\* int() of the digits toks[i..j]
int(toks, i, j) == IF j < i THEN 0 ELSE 10 * int(toks, i, j - 1) + DigitValue(toks[j])

RECURSIVE EndOfNumber(_, _)
EndOfNumber(toks, i) ==
    IF i + 1 <= Len(toks) /\ IsDigit(toks[i + 1]) THEN EndOfNumber(toks, i + 1) ELSE i

RECURSIVE SumOfCounts(_, _)
\* the sum of the values of the JSON object of counts, read from token i on
SumOfCounts(toks, i) ==
    IF i > Len(toks) \/ toks[i] = "}" THEN 0
    ELSE IF toks[i] = "," THEN SumOfCounts(toks, i + 1)
    ELSE LET e == EndOfNumber(toks, i + 1) IN
         int(toks, i + 2, e) + SumOfCounts(toks, e + 1)

DirectCall(op) == nOps' = nOps + 1 /\ lastOp'.op = op
HasId(coll, id) == \E i \in 1..Len(coll) : coll[i]["id"] = id

\* C6: add_student with an id no record has returns the success string, and a
\* get_student of that id right after returns a record with exactly the id,
\* name, department and email that were added.
C6_AddThenGet ==
    [][ (DirectCall("add_student") /\ connected /\ ~HasId(students, lastOp'.id)) =>
          /\ lastOp'.ret = Added(lastOp'.name, lastOp'.id)
          /\ ~startswith_Error(lastOp'.ret)
          /\ json_loads_doc(get_student(connected', students', lastOp'.id).ret)
               = Doc(lastOp'.id, lastOp'.name, lastOp'.department, lastOp'.email) ]_vars

C6_Witness ==
    /\ lastOp.op = "add_student"
    /\ lastOp.ret = Added(lastOp.name, lastOp.id)
    /\ Len(students) = 6
    /\ json_loads_doc(get_student(connected, students, lastOp.id).ret)["name"] = lastOp.name

\* C7: add_student with an id some record already has returns the duplicate-id
\* error string and leaves the whole collection as it was.
C7_DuplicateRejected ==
    [][ (DirectCall("add_student") /\ connected /\ HasId(students, lastOp'.id)) =>
          /\ lastOp'.ret = AlreadyExists(lastOp'.id)
          /\ startswith_Error(lastOp'.ret)
          /\ students' = students ]_vars

C7_Witness ==
    /\ lastOp.op = "add_student"
    /\ lastOp.ret = AlreadyExists(lastOp.id)
    /\ HasId(students, lastOp.id)

\* C8: delete_student of an id no record has returns the not-found error string
\* and leaves the document count and the contents of the collection as they were.
C8_DeleteMissing ==
    [][ (DirectCall("delete_student") /\ connected /\ ~HasId(students, lastOp'.id)) =>
          /\ lastOp'.ret = NotFound(lastOp'.id)
          /\ startswith_Error(lastOp'.ret)
          /\ count_documents(students') = count_documents(students)
          /\ students' = students ]_vars

C8_Witness ==
    /\ lastOp.op = "delete_student"
    /\ lastOp.ret = NotFound(lastOp.id)
    /\ students # <<>>

\* C9: in every collection state reached by add_student, update_student and
\* delete_student, the counts get_students_by_department returns sum to the
\* count get_total_students returns.
C9_CountsSumToTotal ==
    connected =>
        LET by_dept == get_students_by_department(connected, students).ret
            total == get_total_students(connected, students).ret
        IN SumOfCounts(by_dept, 2) = int(total, 1, Len(total))

C9_Witness ==
    /\ connected
    /\ nOps = MaxOps
    /\ Len(students) = 6
    /\ \E i, j \in 1..Len(students) : i # j /\ students[i]["department"] = "Physics"
                                            /\ students[j]["department"] = "Physics"
    /\ SumOfCounts(get_students_by_department(connected, students).ret, 2) = 6

\* C10: no two records of the collection share an id.
C10_UniqueIds ==
    \A i, j \in 1..Len(students) : students[i]["id"] = students[j]["id"] => i = j

----------------------------------------------------------------------------
(* Concurrent add_student calls.  Each call runs the statements of          *)
(* add_student in order; find_one and insert_one are each atomic, and the   *)
(* calls of different requests interleave between them.                     *)

\* add_student is entered: the None check of the collection handle
RaceCall(p) ==
    /\ calls[p].pc = "idle"
    /\ \E id \in Ids, name \in Names, department \in Departments, email \in Emails :
         calls' = [calls EXCEPT ![p] =
                     [pc |-> IF connected THEN "find" ELSE "done",
                      id |-> id, name |-> name, department |-> department, email |-> email,
                      fresh |-> connected /\ find_one(students, id) = 0,
                      found |-> FALSE,
                      ret |-> IF connected THEN <<>> ELSE DB_FAILED]]
    /\ UNCHANGED <<storeVars, agentVars, reachable, raised, http, runs, thread>>

\* if students_collection.find_one({"id": id}): return the already-exists error
RaceFind(p) ==
    /\ calls[p].pc = "find"
    /\ LET found == find_one(students, calls[p].id) # 0 IN
       calls' = [calls EXCEPT ![p].found = found,
                              ![p].pc = IF found THEN "done" ELSE "insert",
                              ![p].ret = IF found THEN AlreadyExists(calls[p].id) ELSE <<>>]
    /\ UNCHANGED <<storeVars, agentVars, reachable, raised, http, runs, thread>>

\* students_collection.insert_one(new_student) and the success string
RaceInsert(p) ==
    /\ calls[p].pc = "insert"
    /\ students' = insert_one(students, Doc(calls[p].id, calls[p].name,
                                             calls[p].department, calls[p].email))
    /\ calls' = [calls EXCEPT ![p].pc = "done",
                              ![p].ret = Added(calls[p].name, calls[p].id)]
    /\ UNCHANGED <<connected, lastOp, nOps, agentVars, reachable, raised, http, runs, thread>>

NextRace ==
    \/ \E p \in Procs : RaceCall(p)
    \/ \E p \in Procs : RaceFind(p)
    \/ \E p \in Procs : RaceInsert(p)

SpecRace == Init /\ [][NextRace]_vars

\* C11: when two requests call add_student at the same time with the same id,
\* which no record had when either call began, and both calls have returned,
\* one returned success, the other the duplicate-id error, and the collection
\* has exactly one record with that id.
C11_OneConcurrentAddWins ==
    \A p, q \in Procs :
        (/\ p # q
         /\ calls[p].pc = "done" /\ calls[q].pc = "done"
         /\ calls[p].id = calls[q].id
         /\ calls[p].fresh /\ calls[q].fresh)
        => /\ Cardinality({c \in {p, q} : calls[c].ret = Added(calls[c].name, calls[c].id)}) = 1
           /\ Cardinality({c \in {p, q} : calls[c].ret = AlreadyExists(calls[c].id)}) = 1
           /\ Cardinality(Matches(students, calls[p].id)) = 1

----------------------------------------------------------------------------
(* Handlers while the store is out of reach.  The handle students_collection *)
(* is fixed when the module is loaded; a store that stops answering later    *)
(* makes the store operation of a handler raise.                             *)

StoreBacked == {"list_students", "get_student", "add_student", "update_student",
                "delete_student", "get_total_students", "get_students_by_department"}

ServerSelectionTimeoutError == <<"pymongo.errors.ServerSelectionTimeoutError">>

\* a call of the named handler: the None check comes first and returns the
\* error string; past it, the store operation raises when the store is out of reach
handler_call(name, a, conn, reach, coll) ==
    IF conn /\ ~reach
    THEN [ret |-> ServerSelectionTimeoutError, coll |-> coll, raised |-> TRUE]
    ELSE LET r == tool_executor_invoke([name |-> name, args |-> a], conn, coll) IN
         [ret |-> r.ret, coll |-> r.coll, raised |-> FALSE]

Outage ==
    /\ connected
    /\ reachable
    /\ reachable' = FALSE
    /\ UNCHANGED <<storeVars, agentVars, calls, raised, http, runs, thread>>

Recover ==
    /\ connected
    /\ ~reachable
    /\ reachable' = TRUE
    /\ UNCHANGED <<storeVars, agentVars, calls, raised, http, runs, thread>>

HandlerCall ==
    /\ nOps < MaxOps
    /\ \E name \in StoreBacked, id \in Ids :
         LET a == Args(id, "Omar", "Physics", "omar@x.edu", "department", "Physics")
             r == handler_call(name, a, connected, reachable, students)
         IN /\ students' = r.coll
            /\ raised' = r.raised
            /\ lastOp' = Op(name, a.id, a.name, a.department, a.email, a.field, a.new_value, r.ret)
    /\ nOps' = nOps + 1
    /\ UNCHANGED <<connected, agentVars, calls, reachable, http, runs, thread>>

NextOutage == Outage \/ Recover \/ HandlerCall

SpecOutage == Init /\ [][NextOutage]_vars

\* C12: no handler call ends with an exception, and a call made while the store
\* is unavailable (never connected, or out of reach since) returns a string that
\* begins with the error marker.
C12_HandlersNeverRaise ==
    /\ ~raised
    /\ (lastOp.op \in StoreBacked /\ (~connected \/ ~reachable)) => startswith_Error(lastOp.ret)

----------------------------------------------------------------------------
(* Further properties of the agent loop (SpecAgent) *)

\* C13: a cycle at "action" whose request names an unregistered tool does not
\* fail the run: it appends one tool-result message that carries an error string
\* and the id of the request, and goes back to "agent".
C13_UnknownToolReported ==
    [][ (/\ node = "action"
         /\ Requests(Last(messages))
         /\ Last(messages).tool_calls[1].name \notin tools)
        => /\ node' = "agent"
           /\ Len(messages') = Len(messages) + 1
           /\ Last(messages').role = "tool"
           /\ Last(messages').tool_call_id = Last(messages).tool_calls[1].id
           /\ Last(messages').content[1] = "Error: " ]_vars

\* C14: POST /chat answers 400 with an error body, without starting a run, exactly
\* when the message is missing or empty; it answers 500 with the error text when
\* the run raised; otherwise it answers with the text of the last message of the
\* finished run, which is the assistant's answer at END.
C14_ChatResponses ==
    mode = "chat" =>
        /\ node = "none" <=> response.status_code = 400
        /\ response.status_code = 400 =>
             /\ response.content = <<"error", "Message is required.">>
             /\ messages = <<>> /\ modelCalls = 0 /\ toolCycles = 0
        /\ node # "none" => (messages[1].role = "human" /\ messages[1].content # <<"">>)
        /\ node = "failed" <=> response.status_code = 500
        /\ response.status_code = 500 => response.content[1] = "error"
        /\ response.status_code = 200 =>
             /\ node = "END"
             /\ Answer(Last(messages))
             /\ response.content = <<"response">> \o Last(messages).content
        /\ response.status_code \in {0, 200, 400, 500}

C14_Witness ==
    /\ mode = "chat"
    /\ response.status_code = 200
    /\ toolCycles >= 1
    /\ response.content = <<"response", "The library ", "is open.">>

IsTokenEvent(ev) == ev.event = "on_chat_model_stream" /\ ev.content # <<"">>
IsToolEnd(ev) == ev.event = "on_tool_end"
IsPayloadFrame(fr) == Len(fr) > 3 /\ fr[3] \in {"token", "tool_output"}
PayloadEvents == SelectSeq(events, LAMBDA ev : IsTokenEvent(ev) \/ IsToolEnd(ev))
PayloadFrames == SelectSeq(frames, IsPayloadFrame)

\* C16: the token and tool_output frames of a stream are, one for one and in the
\* order of arrival, the token events with non-empty content and the tool-end
\* events, each frame carrying its event's content or tool result; and no such
\* frame comes after a terminal frame.
C16_RelayInOrder ==
    mode = "stream" =>
        /\ Len(PayloadFrames) = Len(PayloadEvents)
        /\ \A i \in 1..Len(PayloadFrames) :
               PayloadFrames[i] =
                   <<"data: ", "{", (IF IsToolEnd(PayloadEvents[i]) THEN "tool_output" ELSE "token"),
                     ":">> \o PayloadEvents[i].content \o <<"}", "\n\n">>
        /\ \A i, j \in 1..Len(frames) :
               (i < j /\ frames[i] = DONE) => ~IsPayloadFrame(frames[j])

C16_Witness ==
    /\ channel = "closed"
    /\ Len(PayloadFrames) = 3
    /\ Last(frames) = DONE
    /\ PayloadFrames[1] = ToolOutputFrame(get_library_hours)
    /\ PayloadFrames[2] = TokenFrame(<<"The library ">>)
    /\ \E i \in 1..Len(events) : events[i] = Event("on_chat_model_stream", <<"">>)

\* C18: a cycle at "action" after an assistant turn with n >= 1 requests runs
\* the tool of the first request only and appends exactly one tool-result
\* message, tagged with the id of the first request; the other requests are
\* neither run nor answered before the loop is back at "agent".
C18_FirstRequestOnly ==
    [][ (node = "action" /\ node' = "agent") =>
          LET requests == Last(messages).tool_calls
              first == requests[1]
          IN /\ Len(requests) >= 1
             /\ Len(messages') = Len(messages) + 1
             /\ SubSeq(messages', 1, Len(messages)) = messages
             /\ Last(messages').role = "tool"
             /\ Last(messages').tool_call_id = first.id
             /\ toolCycles' = toolCycles + 1
             /\ first.name \in tools =>
                  /\ lastOp'.op = first.name
                  /\ Last(messages').content = tool_executor_invoke(first, connected, students).ret
                  /\ students' = tool_executor_invoke(first, connected, students).coll ]_vars

C18_Witness ==
    /\ node = "agent"
    /\ Len(messages) = 3
    /\ Len(messages[2].tool_calls) = 2
    /\ messages[2].tool_calls[1].name = "get_library_hours"
    /\ messages[2].tool_calls[2].name = "add_student"
    /\ messages[2].tool_calls[1].id # messages[2].tool_calls[2].id
    /\ messages[3].role = "tool"
    /\ messages[3].content = get_library_hours
    /\ Len(students) = 5

----------------------------------------------------------------------------
(* Further properties of the roster tools (SpecStore) *)

\* C19: delete_student of an id some record has returns the success string and
\* removes exactly one record, one with that id, leaving every other record as it
\* was (the count goes down by one); when that id was held by one record only, a
\* get_student of the id right after returns the not-found error string.
C19_DeleteExisting ==
    [][ (DirectCall("delete_student") /\ connected /\ HasId(students, lastOp'.id)) =>
          /\ lastOp'.ret = Deleted(lastOp'.id)
          /\ ~startswith_Error(lastOp'.ret)
          /\ count_documents(students') = count_documents(students) - 1
          /\ \E i \in Matches(students, lastOp'.id) : students' = RemoveAt(students, i)
          /\ Cardinality(Matches(students, lastOp'.id)) = 1 =>
                 get_student(connected', students', lastOp'.id).ret = NotFound(lastOp'.id) ]_vars

C19_Witness ==
    /\ lastOp.op = "delete_student"
    /\ lastOp.ret = Deleted(lastOp.id)
    /\ Len(students) = 4
    /\ get_student(connected, students, lastOp.id).ret = NotFound(lastOp.id)

\* C20: update_student never adds a record: with an id no record has it returns
\* the not-found error string and leaves the collection as it was; with an id
\* some record has it sets the named field of one record with that id, and the
\* count, the other fields of that record and all other records stay as they were.
C20_UpdateFrame ==
    [][ (DirectCall("update_student") /\ connected) =>
          /\ count_documents(students') = count_documents(students)
          /\ IF ~HasId(students, lastOp'.id)
             THEN /\ lastOp'.ret = NotFound(lastOp'.id)
                  /\ students' = students
             ELSE /\ lastOp'.ret = Updated(lastOp'.id)
                  /\ \E i \in Matches(students, lastOp'.id) :
                        /\ \A j \in 1..Len(students) : j # i => students'[j] = students[j]
                        /\ \A f \in Fields \ {lastOp'.field} : students'[i][f] = students[i][f]
                        /\ students'[i][lastOp'.field] = lastOp'.new_value ]_vars

C20_Witness ==
    /\ lastOp.op = "update_student"
    /\ lastOp.ret = Updated(lastOp.id)
    /\ lastOp.field = "year"
    /\ Len(students) = 5
    /\ \E i \in 1..Len(students) : students[i]["year"] = lastOp.new_value


----------------------------------------------------------------------------
(* The /students endpoints *)

Bodies == { Body(id, "Omar", "Data Science", "2024", "omar@x.edu") : id \in Ids }

\* json.loads succeeds on a JSON document and raises on any other text
is_json(toks) == toks # <<>> /\ (toks[1] \in {"{", "["} \/ \A i \in 1..Len(toks) : IsDigit(toks[i]))

JSONDecodeError == <<"error", "Expecting value: line 1 column 1 (char 0)">>
TypeError == <<"error", "update_student() takes 3 positional arguments but 5 were given">>

Http(method, student_id, body, existed, status_code, content) ==
    [method |-> method, student_id |-> student_id, body |-> body, existed |-> existed,
     status_code |-> status_code, content |-> content]

\* GET /students/{student_id}
GetStudentById ==
    /\ nOps < MaxOps
    /\ \E student_id \in Ids :
         LET student == get_student(connected, students, student_id).ret IN
         http' = Http("GET", student_id, NoBody, find_one(students, student_id) # 0,
                      IF startswith_Error(student) THEN 404 ELSE 200,
                      IF startswith_Error(student) THEN <<"error">> \o student
                      ELSE json_dumps_doc(json_loads_doc(student)))
    /\ nOps' = nOps + 1
    /\ UNCHANGED <<connected, students, lastOp, agentVars, calls, reachable, raised, runs, thread>>

\* POST /students: add_student is called with name, department, year and email
\* of the body in the places of id, name, department and email
AddNewStudent ==
    /\ nOps < MaxOps
    /\ \E data \in Bodies :
         LET r == add_student(connected, students,
                              data.name, data.department, data.year, data.email)
             result == r.ret
         IN /\ students' = r.coll
            /\ lastOp' = Op("add_student", data.name, data.department, data.year, data.email,
                            NoArg, NoArg, result)
            /\ http' = Http("POST", NoArg, data, find_one(students, data.id) # 0,
                            IF startswith_Error(result) THEN 400
                            ELSE IF is_json(result) THEN 201 ELSE 500,
                            IF startswith_Error(result) THEN <<"error">> \o result
                            ELSE IF is_json(result) THEN result ELSE JSONDecodeError)
    /\ nOps' = nOps + 1
    /\ UNCHANGED <<connected, agentVars, calls, reachable, raised, runs, thread>>

\* a call of update_student(id, field, new_value) with the given positional arguments
call_update_student(conn, coll, args) ==
    IF Len(args) # 3 THEN [ret |-> TypeError, coll |-> coll, raised |-> TRUE]
    ELSE LET r == update_student(conn, coll, args[1], args[2], args[3]) IN
         [ret |-> r.ret, coll |-> r.coll, raised |-> FALSE]

\* PUT /students/{student_id}: update_student is called with five arguments
UpdateStudentInfo ==
    /\ nOps < MaxOps
    /\ \E student_id \in Ids, data \in Bodies :
         LET r == call_update_student(connected, students,
                     <<student_id, data.name, data.department, data.year, data.email>>)
         IN /\ students' = r.coll
            /\ http' = Http("PUT", student_id, data, find_one(students, student_id) # 0,
                            IF r.raised THEN 500
                            ELSE IF startswith_Error(r.ret) THEN 404
                            ELSE IF is_json(r.ret) THEN 200 ELSE 500,
                            IF r.raised THEN r.ret
                            ELSE IF startswith_Error(r.ret) THEN <<"error">> \o r.ret
                            ELSE IF is_json(r.ret) THEN r.ret ELSE JSONDecodeError)
    /\ nOps' = nOps + 1
    /\ UNCHANGED <<connected, lastOp, agentVars, calls, reachable, raised, runs, thread>>

\* DELETE /students/{student_id}
DeleteStudentRecord ==
    /\ nOps < MaxOps
    /\ \E student_id \in Ids :
         LET r == delete_student(connected, students, student_id) IN
         /\ students' = r.coll
         /\ lastOp' = Op("delete_student", student_id, NoArg, NoArg, NoArg, NoArg, NoArg, r.ret)
         /\ http' = Http("DELETE", student_id, NoBody, find_one(students, student_id) # 0,
                         IF startswith_Error(r.ret) THEN 404 ELSE 200,
                         (IF startswith_Error(r.ret) THEN <<"error">> ELSE <<"message">>) \o r.ret)
    /\ nOps' = nOps + 1
    /\ UNCHANGED <<connected, agentVars, calls, reachable, raised, runs, thread>>

NextHttp == GetStudentById \/ AddNewStudent \/ UpdateStudentInfo \/ DeleteStudentRecord

SpecHttp == Init /\ [][NextHttp]_vars

\* C15: with the store connected, GET, PUT and DELETE /students/{id} answer 404
\* when no record has the id; POST /students with an id no record has answers
\* 201 and get_student of that id then returns the posted record; POST /students
\* with an id some record has answers 400.
C15_StandardCrud ==
    connected =>
        /\ (http.method \in {"GET", "PUT", "DELETE"} /\ ~http.existed) => http.status_code = 404
        /\ (http.method = "POST" /\ ~http.existed) =>
              /\ http.status_code = 201
              /\ json_loads_doc(get_student(connected, students, http.body.id).ret)
                   = Doc(http.body.id, http.body.name, http.body.department, http.body.email)
        /\ (http.method = "POST" /\ http.existed) => http.status_code = 400

----------------------------------------------------------------------------
(* Several chat requests.  Each request starts a run of the compiled graph  *)
(* with config thread_id "1"; the runs of different requests may overlap.   *)

SessionMessages == {"what are library hours?", "add Omar"}
SessionReplies ==
    { r \in Replies : /\ Len(r.tool_calls) <= 1
                      /\ r.content # <<>> \/ r.tool_calls # <<>>
                      /\ \A i \in 1..Len(r.tool_calls) :
                            r.tool_calls[i].id = "call_1" /\ r.tool_calls[i].name \in tools }

RECURSIVE CallsUpTo(_, _)
CallsUpTo(rs, k) == IF k = 0 THEN 0 ELSE rs[k].calls + CallsUpTo(rs, k - 1)
TotalCalls == CallsUpTo(runs, Cardinality(RunIds))

\* a graph compiled with a checkpointer keeps the state of the thread
checkpoint_put_saver(saved, state_messages) == state_messages

\* app = workflow.compile(): no checkpointer is given, so a step of a run leaves
\* what is kept for the thread as it is
checkpoint_put(saved, state_messages) == saved

\* agent_app.invoke / astream_events(inputs, config): the run starts from what is
\* kept for the thread, to which the reducer adds the input message
StartRun(r) ==
    /\ runs[r].node = "none"
    /\ \E user_message \in SessionMessages, endpoint \in {"chat", "stream"} :
         runs' = [runs EXCEPT ![r] =
                    [node |-> "agent", endpoint |-> endpoint, user_message |-> user_message,
                     messages |-> add_messages(thread, <<HumanMessage(user_message)>>),
                     calls |-> 0, seen |-> TotalCalls]]
    /\ UNCHANGED <<storeVars, agentVars, calls, reachable, raised, http, thread>>

RunModel(r) ==
    /\ runs[r].node = "agent"
    /\ TotalCalls < MaxRunCalls
    /\ \E reply \in SessionReplies :
         LET state_messages == add_messages(runs[r].messages, <<reply>>) IN
         /\ runs' = [runs EXCEPT ![r].messages = state_messages,
                                 ![r].node = conditional_edge(state_messages),
                                 ![r].calls = @ + 1]
         /\ thread' = checkpoint_put(thread, state_messages)
    /\ UNCHANGED <<storeVars, agentVars, calls, reachable, raised, http>>

RunTool(r) ==
    /\ runs[r].node = "action"
    /\ LET action == first_tool_call(Last(runs[r].messages))
           tool_output == tool_executor_invoke(action, connected, students)
           state_messages == add_messages(runs[r].messages,
                                          <<ToolMessage(tool_output.ret, action.id)>>)
       IN /\ runs' = [runs EXCEPT ![r].messages = state_messages, ![r].node = "agent"]
          /\ students' = tool_output.coll
          /\ thread' = checkpoint_put(thread, state_messages)
    /\ UNCHANGED <<connected, lastOp, nOps, agentVars, calls, reachable, raised, http>>

NextSessions ==
    \/ \E r \in RunIds : StartRun(r)
    \/ \E r \in RunIds : RunModel(r)
    \/ \E r \in RunIds : RunTool(r)

SpecSessions == Init /\ [][NextSessions]_vars

HumanMessages(msgs) == {i \in 1..Len(msgs) : msgs[i].role = "human"}

====
